---- MODULE Spec2Model ----
(***************************************************************************)
(* A model of oth (src/src/main.rs): resolve the remote and its default    *)
(* branch, plan a git diff command for the chosen diff mode, list the      *)
(* changed files, rewrite each path relative to the current directory,     *)
(* and print them or hand them to the selector and the editor.             *)
(*                                                                         *)
(* Strings are sequences of atoms. An atom is a piece of text that no      *)
(* operation of the program ever cuts: a path component ("foo"), a         *)
(* separator ("/"), a blank (" "), a line break ("\n"), a command word     *)
(* ("--cached"), the literal head of the symbolic-ref pattern              *)
(* ("ref: refs/remotes/"). Concatenation is \o, the empty string is <<>>.  *)
(***************************************************************************)
EXTENDS Naturals, Sequences, FiniteSets

\* ------------------------------------------------------------------ bounds

\* Longest directory (in components) of the paths relativize is applied to.
MaxDepth == 3
\* Longest changed-file list git reports in a run.
MaxFiles == 2

\* ----------------------------------------------------------------- strings

SLASH == "/"
SPACE == " "
NEWLINE == "\n"

\* Option<T>
None == [some |-> FALSE]
Some(v) == [some |-> TRUE, v |-> v]

\* str::starts_with
StartsWith(s, p) ==
    /\ Len(p) <= Len(s)
    /\ SubSeq(s, 1, Len(p)) = p

\* The string after its first n atoms.
Drop(s, n) == SubSeq(s, n + 1, Len(s))

\* str::strip_prefix
StripPrefix(s, p) == IF StartsWith(s, p) THEN Some(Drop(s, Len(p))) ELSE None

\* String::repeat
RECURSIVE Repeat(_, _)
Repeat(s, n) == IF n = 0 THEN <<>> ELSE s \o Repeat(s, n - 1)

\* str::split(sep) for a one-atom separator, collected: the pieces between
\* separators, empty pieces kept, so the empty string splits into one empty
\* piece.
RECURSIVE SplitFrom(_, _, _)
SplitFrom(s, sep, cur) ==
    IF s = <<>> THEN <<cur>>
    ELSE IF Head(s) = sep THEN <<cur>> \o SplitFrom(Tail(s), sep, <<>>)
    ELSE SplitFrom(Tail(s), sep, Append(cur, Head(s)))

Split(s, sep) == SplitFrom(s, sep, <<>>)

\* Iterator::filter(|s| !s.is_empty())
RECURSIVE NonEmpty(_)
NonEmpty(parts) ==
    IF parts = <<>> THEN <<>>
    ELSE IF Head(parts) = <<>> THEN NonEmpty(Tail(parts))
    ELSE <<Head(parts)>> \o NonEmpty(Tail(parts))

IsBlank(a) == a \in {SPACE, NEWLINE}

\* str::trim
RECURSIVE TrimStart(_)
TrimStart(s) ==
    IF s # <<>> /\ IsBlank(Head(s)) THEN TrimStart(Tail(s)) ELSE s

RECURSIVE TrimEnd(_)
TrimEnd(s) ==
    IF s # <<>> /\ IsBlank(s[Len(s)]) THEN TrimEnd(SubSeq(s, 1, Len(s) - 1)) ELSE s

Trim(s) == TrimEnd(TrimStart(s))

\* ------------------------------------------------------------------- paths

\* The last index of a separator in p, 0 when it has none.
LastSlash(p) ==
    LET idx == {i \in 1..Len(p) : p[i] = SLASH}
    IN IF idx = {} THEN 0 ELSE CHOOSE i \in idx : \A j \in idx : j <= i

\* Path::parent of a relative path of plain components: the path without its
\* last component, the empty path for a single component, None for the empty
\* path.
PathParent(p) ==
    IF p = <<>> THEN None
    ELSE IF LastSlash(p) = 0 THEN Some(<<>>)
    ELSE Some(SubSeq(p, 1, LastSlash(p) - 1))

\* Path::file_name of such a path: its last component.
PathFileName(p) ==
    IF p = <<>> THEN None ELSE Some(Drop(p, LastSlash(p)))

\* Path::join of a base and a relative path.
PathJoin(base, rel) == base \o <<SLASH>> \o rel

\* Path::strip_prefix: by whole components.
PathStripPrefix(p, base) ==
    IF p = base THEN Some(<<>>)
    ELSE StripPrefix(p, base \o <<SLASH>>)

\* -------------------------------------------------------------- relativize

RELATIVE_REFERENCE == <<"..", SLASH>>

\* The loop of relativize: the first index i (from 1) at which to_parts has
\* no i-th piece or one that differs from from_parts' i-th; 0 when the loop
\* runs to the end of from_parts.
RECURSIVE Divergence(_, _, _)
Divergence(from_parts, to_parts, i) ==
    IF i > Len(from_parts) THEN 0
    ELSE IF i <= Len(to_parts) /\ from_parts[i] = to_parts[i]
         THEN Divergence(from_parts, to_parts, i + 1)
    ELSE i

\* FromRemaining with a fault: counts the components after the divergence
\* point only.
FromRemainingExclusive(from_parts, i) == Len(from_parts) - i

\* from_parts.clone().skip(i).count() at the (1-based) index i.
FromRemaining(from_parts, i) == Len(from_parts) - i + 1

\* NoDivergence with a fault: the file's base name instead of the whole path.
NoDivergenceBaseName(to) == PathFileName(to).v

\* The value relativize returns when its loop ends without a divergence.
NoDivergence(to) == to

relativize(from, to) ==
    IF from = <<>> THEN to
    ELSE LET stripped == IF StartsWith(from, <<SLASH>>)
                         THEN StripPrefix(from, <<SLASH>>).v ELSE from
             to_dir == PathParent(to).v
             to_file == PathFileName(to).v
             from_parts == Split(stripped, SLASH)
             to_parts == Split(to_dir, SLASH)
             i == Divergence(from_parts, to_parts, 1)
         IN IF i = 0 THEN NoDivergence(to)
            ELSE Repeat(RELATIVE_REFERENCE, FromRemaining(from_parts, i)) \o to_file

\* The inputs of relativize: directories and files of plain components.
DirNames == {"foo", "bar", "baz"}
FileNames == {"hey", "qux.txt", "readme.md"}

RECURSIVE DirsOfDepth(_)
DirsOfDepth(n) ==
    IF n = 0 THEN {<<>>}
    ELSE {<<d>> : d \in DirNames}
         \cup {<<d, SLASH>> \o r : d \in DirNames, r \in DirsOfDepth(n - 1) \ {<<>>}}
         \cup {<<>>}

Dirs == DirsOfDepth(MaxDepth)

\* The current directory relative to the repository root, as main computes
\* it ("" or "/sub/dir") and as the test passes it ("sub/dir").
FromDirs == Dirs \cup {<<SLASH>> \o d : d \in Dirs \ {<<>>}}

\* Repository-root-relative file paths.
ToPaths == {IF d = <<>> THEN <<f>> ELSE d \o <<SLASH, f>> : d \in Dirs, f \in FileNames}

\* --------------------------------------------------------------- constants

DEFAULT_EDITOR == <<"nvim">>
REMOTE_FALLBACK == <<"origin">>

\* enum DiffMode, by the names clap's ValueEnum gives its variants.
DiffMode == {"branch", "remote", "revlist", "revlist-remote", "upstream"}

\* The default_value of Args::diff_mode.
DefaultDiffMode == "revlist-remote"

\* ------------------------------------------------------ the run's environment

\* What a git subprocess can do: not start at all, exit non-zero, exit zero.
GitOutcomes == {"nolaunch", "fail", "ok"}

\* Values of --diff-mode a user may pass: the variants' names and the name of
\* the mode the design document lists beside them.
DiffModeArgs == DiffMode \cup {"working-tree"}

\* Outputs of rev-parse --abbrev-ref --symbolic-full-name @{u}.
UpstreamNames == {<<"upstream", SLASH, "feature">>}

\* Outputs of rev-list --count HEAD ^<default branch>.
RevListCounts == {<<"0">>, <<"2">>}

\* Outputs of branch --show-current.
CurrentBranches == {<<"feature">>}

WORKDIR == <<SLASH, "repo">>

REF_HEAD == "ref: refs/remotes/"

\* Contents the file .git/refs/remotes/<remote>/HEAD may hold.
HeadContents(r) ==
    { <<REF_HEAD>> \o r \o <<SLASH, "main", NEWLINE>>,
      <<REF_HEAD>> \o r \o <<SLASH, NEWLINE>>,
      <<REF_HEAD, "elsewhere", SLASH, "main", NEWLINE>>,
      <<"0123abc", NEWLINE>>,
      <<>> }

\* The current directory below the repository root.
WorkSubdirs == {<<>>, <<SLASH, "foo", SLASH, "bar">>}

\* Paths git diff --name-only may report.
ChangedPaths ==
    { <<"readme.md">>, <<"foo", SLASH, "hey">>,
      <<"foo", SLASH, "bar", SLASH, "qux.txt">> }

RECURSIVE SeqsUpTo(_, _)
SeqsUpTo(S, n) ==
    IF n = 0 THEN {<<>>}
    ELSE SeqsUpTo(S, n - 1)
         \cup {Append(q, x) : q \in {r \in SeqsUpTo(S, n - 1) : Len(r) = n - 1}, x \in S}

\* The file lists of a run: in git's order, no path twice.
Listed(q) == \A i, j \in 1..Len(q) : i < j => q[i] # q[j]

FileLists == {q \in SeqsUpTo(ChangedPaths, MaxFiles) : Listed(q)}

\* The stdout of git diff --name-only: one path per line.
RECURSIVE Lines(_)
Lines(q) == IF q = <<>> THEN <<>> ELSE Head(q) \o <<NEWLINE>> \o Lines(Tail(q))

\* The sub-lists of q, in q's order (what a multi-selection returns).
RECURSIVE SubLists(_)
SubLists(q) ==
    IF q = <<>> THEN {<<>>}
    ELSE SubLists(Tail(q)) \cup {<<Head(q)>> \o r : r \in SubLists(Tail(q))}

\* ------------------------------------------------------ get_default_branch

\* The first index at which pat occurs in text, 0 when it does not.
FindFirst(text, pat) ==
    LET at == {i \in 1..(Len(text) + 1) :
                 /\ i + Len(pat) - 1 <= Len(text)
                 /\ SubSeq(text, i, i + Len(pat) - 1) = pat}
    IN IF at = {} THEN 0 ELSE CHOOSE i \in at : \A j \in at : i <= j

\* What "." of a regex matches from the start of s: everything to the first
\* line break.
RECURSIVE UpToNewline(_)
UpToNewline(s) ==
    IF s = <<>> \/ Head(s) = NEWLINE THEN <<>>
    ELSE <<Head(s)>> \o UpToNewline(Tail(s))

\* The group (.*) of the pattern, matched against what follows the literal.
CaptureBranch(rest) == Some(UpToNewline(rest))

\* Regex::new("ref: refs/remotes/{remote}/(.*)").captures(ref_line)[1]: an
\* unanchored search for the literal, then the group.
RegexCaptures(ref_line, r) ==
    LET lit == <<REF_HEAD>> \o r \o <<SLASH>>
        at == FindFirst(ref_line, lit)
    IN IF at = 0 THEN None ELSE CaptureBranch(Drop(ref_line, at + Len(lit) - 1))

\* get_default_branch on a file that could be read.
get_default_branch(r, content) == RegexCaptures(Trim(content), r)

\* ------------------------------------------------------------- the planner

\* BaseCommand with a fault: the remote arm diffs against the local branch.
BaseCommandLocal(mode, r, default_branch, current, count) ==
    CASE mode = "branch" -> <<"diff", SPACE>> \o default_branch
      [] mode = "upstream" -> <<"diff", SPACE>> \o r \o <<SLASH>> \o current
      [] mode = "remote" -> <<"diff", SPACE>> \o default_branch
      [] mode = "revlist" -> <<"diff", SPACE, "HEAD~">> \o count
      [] mode = "revlist-remote" -> <<"diff", SPACE>> \o r \o <<SLASH, "HEAD~">> \o count

\* The match over args.diff_mode: the diff command of each mode.
BaseCommand(mode, r, default_branch, current, count) ==
    CASE mode = "branch" -> <<"diff", SPACE>> \o default_branch
      [] mode = "upstream" -> <<"diff", SPACE>> \o r \o <<SLASH>> \o current
      [] mode = "remote" -> <<"diff", SPACE>> \o r \o <<SLASH>> \o default_branch
      [] mode = "revlist" -> <<"diff", SPACE, "HEAD~">> \o count
      [] mode = "revlist-remote" -> <<"diff", SPACE>> \o r \o <<SLASH, "HEAD~">> \o count

\* WithStaged with a fault: the suffix whatever the index holds.
WithStagedAlways(cmd, staged) == cmd \o <<SPACE, "--cached">>

\* if staged_changes { diff_cmd = format!("{} --cached", diff_cmd) }
WithStaged(cmd, staged) == IF staged THEN cmd \o <<SPACE, "--cached">> ELSE cmd

\* format!("{} --name-only", diff_cmd)
FilesCommand(cmd) == cmd \o <<SPACE, "--name-only">>

\* format!("git {} --color=always -- {{}}", diff_cmd)
PreviewCommand(cmd) ==
    <<"git", SPACE>> \o cmd \o <<SPACE, "--color=always", SPACE, "--", SPACE, "{}">>

\* shlex::split of a string without quotes or escapes: its words, the blanks
\* between them dropped.
ShlexSplit(s) == NonEmpty(Split(s, SPACE))

\* git_output's stdout: trimmed.
GitStdout(raw) == Trim(raw)

\* The parsing of the listing: split on line breaks, empty lines dropped.
ParseFileNames(out) == NonEmpty(Split(out, NEWLINE))

\* The values of EDITOR a run may see; a run with --editor does not read it.
EditorEnv(editor_arg) == IF editor_arg.some THEN {None} ELSE {None, Some(<<"emacs">>)}

\* get_editor
get_editor(editor_arg, editor_env) ==
    IF editor_arg.some THEN editor_arg.v
    ELSE IF editor_env.some THEN editor_env.v
    ELSE DEFAULT_EDITOR

\* ------------------------------------------------------------------- state

VARIABLES
    pc,                  \* the statement of main the run is at
    args,                \* struct Args, None before it is parsed
    workdir,             \* main's workdir
    remote,              \* main's remote
    head_content,        \* what the read of the remote's HEAD file returned
    default_branch_name, \* main's default_branch_name
    index_state,         \* the repository's index: clean, staged or unreadable
    staged_changes,      \* main's staged_changes
    branch,              \* the current branch (the Upstream arm's local)
    rev_list_count,      \* the commit count (the Revlist arms' local)
    diff_cmd,            \* main's diff_cmd
    files_cmd,           \* main's files_cmd
    listed_args,         \* the argument vector of the listing git ran
    file_names,          \* main's file_names
    current_dir,         \* main's current_dir
    printed,             \* the lines written to standard output
    preview,             \* the preview command handed to the selector
    skim_out,            \* the selector's result, None before it ran
    editor,              \* main's editor
    launched,            \* the editor processes started, in order
    running,             \* the indices (in launched) of those still running
    trace,               \* the steps the run performed, in order
    rel_pc, rel_from, rel_to, rel_out  \* a call of relativize on its own

main_vars ==
    <<pc, args, workdir, remote, head_content, default_branch_name, index_state,
      staged_changes, branch, rev_list_count, diff_cmd, files_cmd, listed_args,
      file_names, current_dir, printed, preview, skim_out, editor, launched, running, trace>>

rel_vars == <<rel_pc, rel_from, rel_to, rel_out>>

vars == <<main_vars, rel_vars>>

Event(step, res) == [step |-> step, res |-> res]

\* The git queries of a run, by the names the trace gives them.
Q_TOPLEVEL == "git rev-parse --show-toplevel"
Q_UPSTREAM == "git rev-parse --abbrev-ref --symbolic-full-name @{u}"
Q_STAGED == "git diff --cached --shortstat"
Q_BRANCH == "git branch --show-current"
Q_REVLIST == "git rev-list --count HEAD ^default"
Q_LISTING == "git diff --name-only"

GitQueries == {Q_TOPLEVEL, Q_UPSTREAM, Q_STAGED, Q_BRANCH, Q_REVLIST, Q_LISTING}

MainInit ==
    /\ pc = "parse"
    /\ args = None
    /\ workdir = <<>>
    /\ remote = <<>>
    /\ head_content = None
    /\ default_branch_name = None
    /\ index_state = "unknown"
    /\ staged_changes = FALSE
    /\ branch = <<>>
    /\ rev_list_count = <<>>
    /\ diff_cmd = <<>>
    /\ files_cmd = <<>>
    /\ listed_args = <<>>
    /\ file_names = <<>>
    /\ current_dir = <<>>
    /\ printed = <<>>
    /\ preview = <<>>
    /\ skim_out = None
    /\ editor = <<>>
    /\ launched = <<>>
    /\ running = {}
    /\ trace = <<>>

RelIdle ==
    /\ rel_pc = "idle"
    /\ rel_from = <<>>
    /\ rel_to = <<>>
    /\ rel_out = <<>>

Init == MainInit /\ RelIdle

\* A step that ends the run: by a panic, or by returning from main.
Goto(label, step, res) ==
    /\ pc' = label
    /\ trace' = Append(trace, Event(step, res))

\* ---------------------------------------------------------------- main

\* let args = Args::parse(): clap refuses a --diff-mode that names no variant.
ParseArgs ==
    /\ pc = "parse"
    /\ \E mode \in {None} \cup {Some(m) : m \in DiffModeArgs},
          ed \in {None, Some(<<"vim">>)},
          ov \in {None, Some(<<"fork">>)},
          sel \in BOOLEAN :
         IF mode.some /\ mode.v \notin DiffMode
         THEN /\ Goto("usage", "parse", mode.v)
              /\ UNCHANGED args
         ELSE /\ args' = Some([diff_mode |-> IF mode.some THEN mode.v ELSE DefaultDiffMode,
                               editor |-> ed,
                               remote_override |-> ov,
                               selector |-> sel])
              /\ Goto("workdir", "parse", IF mode.some THEN mode.v ELSE "default")
    /\ UNCHANGED <<workdir, remote, head_content, default_branch_name, index_state,
                   staged_changes, branch, rev_list_count, diff_cmd, files_cmd, listed_args, file_names,
                   current_dir, printed, preview, skim_out, editor, launched,
                   running, rel_vars>>

\* let workdir = git_output(["rev-parse", "--show-toplevel"]).expect(..)
GetWorkdir ==
    /\ pc = "workdir"
    /\ \E res \in GitOutcomes :
         IF res = "ok"
         THEN /\ workdir' = GitStdout(WORKDIR \o <<NEWLINE>>)
              /\ Goto("remote", Q_TOPLEVEL, res)
         ELSE /\ Goto("panic", Q_TOPLEVEL, res)
              /\ UNCHANGED workdir
    /\ UNCHANGED <<args, remote, head_content, default_branch_name, index_state,
                   staged_changes, branch, rev_list_count, diff_cmd, files_cmd, listed_args, file_names,
                   current_dir, printed, preview, skim_out, editor, launched,
                   running, rel_vars>>

\* UpstreamFailed with a fault: a failing upstream query is fatal.
UpstreamFailedFatal == None

\* get_remote when the upstream query exits non-zero: the fallback remote.
UpstreamFailed == Some(REMOTE_FALLBACK)

\* get_remote when the upstream query succeeds: the name's first segment.
UpstreamRemote(full_name) == Split(full_name, SLASH)[1]

\* let remote = args.remote_override, or get_remote()
ResolveRemote ==
    /\ pc = "remote"
    /\ IF args.v.remote_override.some
       THEN /\ remote' = args.v.remote_override.v
            /\ pc' = "default_branch"
            /\ UNCHANGED trace
       ELSE \E res \in GitOutcomes :
              CASE res = "nolaunch" ->
                     /\ Goto("panic", Q_UPSTREAM, res)
                     /\ UNCHANGED remote
                [] res = "fail" ->
                     IF UpstreamFailed.some
                     THEN /\ remote' = UpstreamFailed.v
                          /\ Goto("default_branch", Q_UPSTREAM, res)
                     ELSE /\ Goto("panic", Q_UPSTREAM, res)
                          /\ UNCHANGED remote
                [] res = "ok" ->
                     \E full_name \in UpstreamNames :
                       /\ remote' = UpstreamRemote(GitStdout(full_name \o <<NEWLINE>>))
                       /\ Goto("default_branch", Q_UPSTREAM, res)
    /\ UNCHANGED <<args, workdir, head_content, default_branch_name, index_state,
                   staged_changes, branch, rev_list_count, diff_cmd, files_cmd, listed_args, file_names,
                   current_dir, printed, preview, skim_out, editor, launched,
                   running, rel_vars>>

\* let default_branch_name = get_default_branch(&remote, workdir).unwrap():
\* the read of the file fails (expect), or the pattern finds nothing (unwrap).
GetDefaultBranch ==
    /\ pc = "default_branch"
    /\ \/ /\ Goto("panic", "read HEAD", "unreadable")
          /\ UNCHANGED <<head_content, default_branch_name>>
       \/ \E content \in HeadContents(remote) :
            /\ head_content' = Some(content)
            /\ LET found == get_default_branch(remote, content)
               IN IF found.some
                  THEN /\ default_branch_name' = found
                       /\ Goto("staged", "read HEAD", "ok")
                  ELSE /\ Goto("panic", "read HEAD", "no match")
                       /\ UNCHANGED default_branch_name
    /\ UNCHANGED <<args, workdir, remote, index_state, staged_changes, branch, rev_list_count, diff_cmd,
                   files_cmd, listed_args, file_names, current_dir, printed,
                   preview, skim_out, editor, launched, running, rel_vars>>

\* is_staged when git diff --cached --shortstat exits non-zero: the exit
\* status is not read, the (empty) stdout decides.
StagedOnFailure == Some(FALSE)

\* The stdout of git diff --cached --shortstat: one summary line when the
\* index holds staged changes, nothing when it holds none or cannot be read.
ShortStat(index) == IF index = "staged" THEN <<"1 file changed", NEWLINE>> ELSE <<>>

\* let staged_changes = is_staged(): stdout is not empty
IsStaged ==
    /\ pc = "staged"
    /\ \/ /\ Goto("panic", Q_STAGED, "nolaunch")
          /\ UNCHANGED <<index_state, staged_changes>>
       \/ \E index \in {"clean", "staged"} :
            /\ index_state' = index
            /\ staged_changes' = (ShortStat(index) # <<>>)
            /\ Goto("plan", Q_STAGED, "ok")
       \/ /\ index_state' = "unreadable"
          /\ IF StagedOnFailure.some
             THEN /\ staged_changes' = (ShortStat("unreadable") # <<>>)
                  /\ Goto("plan", Q_STAGED, "fail")
             ELSE /\ Goto("panic", Q_STAGED, "fail")
                  /\ UNCHANGED staged_changes
    /\ UNCHANGED <<args, workdir, remote, head_content, default_branch_name,
                   branch, rev_list_count, diff_cmd, files_cmd, listed_args, file_names, current_dir,
                   printed, preview, skim_out, editor, launched, running, rel_vars>>

\* The subordinate query of a mode: the current branch for Upstream, the
\* commit count for the Revlist modes, none for the others.
ModeQuery(mode) ==
    CASE mode = "upstream" -> Q_BRANCH
      [] mode \in {"revlist", "revlist-remote"} -> Q_REVLIST
      [] OTHER -> "none"

\* What a successful subordinate query prints.
QueryOutputs(q) ==
    CASE q = Q_BRANCH -> CurrentBranches
      [] q = Q_REVLIST -> RevListCounts
      [] OTHER -> {<<>>}

\* let mut diff_cmd = match args.diff_mode {..}; the staged suffix; files_cmd
Plan ==
    /\ pc = "plan"
    /\ LET mode == args.v.diff_mode
           q == ModeQuery(mode)
       IN \E res \in (IF q = "none" THEN {"ok"} ELSE GitOutcomes) :
            IF res # "ok"
            THEN /\ Goto("panic", q, res)
                 /\ UNCHANGED <<branch, rev_list_count, diff_cmd, files_cmd>>
            ELSE \E out \in QueryOutputs(q) :
                   /\ branch' = IF q = Q_BRANCH THEN GitStdout(out \o <<NEWLINE>>) ELSE branch
                   /\ rev_list_count' =
                        IF q = Q_REVLIST THEN GitStdout(out \o <<NEWLINE>>) ELSE rev_list_count
                   /\ diff_cmd' = WithStaged(BaseCommand(mode, remote, default_branch_name.v,
                                                         branch', rev_list_count'),
                                             staged_changes)
                   /\ files_cmd' = FilesCommand(diff_cmd')
                   /\ pc' = "list"
                   /\ trace' = IF q = "none" THEN Append(trace, Event("plan", "ok"))
                               ELSE trace \o <<Event(q, res), Event("plan", "ok")>>
    /\ UNCHANGED <<args, workdir, remote, head_content, default_branch_name,
                   index_state, staged_changes, listed_args, file_names, current_dir,
                   printed, preview, skim_out, editor, launched, running, rel_vars>>

\* AfterListing with a fault: the run goes on with an empty list.
AfterListingAlways(names) == "relativize"

\* if file_names.is_empty() { return }
AfterListing(names) == IF names = <<>> THEN "done" ELSE "relativize"

\* The listing: shlex::split(files_cmd), git_output, the lines of its stdout;
\* an empty list ends the run.
ListFiles ==
    /\ pc = "list"
    /\ listed_args' = ShlexSplit(files_cmd)
    /\ \E res \in GitOutcomes :
         IF res # "ok"
         THEN /\ Goto("panic", Q_LISTING, res)
              /\ UNCHANGED file_names
         ELSE \E list \in FileLists :
                /\ file_names' = ParseFileNames(GitStdout(Lines(list)))
                /\ Goto(AfterListing(file_names'), Q_LISTING, res)
    /\ UNCHANGED <<args, workdir, remote, head_content, default_branch_name,
                   index_state, staged_changes, branch, rev_list_count, diff_cmd,
                   files_cmd, current_dir, printed, preview, skim_out, editor,
                   launched, running, rel_vars>>

\* The closure mapped over file_names: the path joined to workdir, workdir
\* stripped again, relativize from current_dir.
RelativizeOne(dir, f) == relativize(dir, PathStripPrefix(PathJoin(workdir, f), workdir).v)

\* let current_dir = cwd.strip_prefix(workdir); file_names mapped
Relativize ==
    /\ pc = "relativize"
    /\ \E sub \in WorkSubdirs :
         LET cwd == workdir \o sub
         IN /\ current_dir' = StripPrefix(cwd, workdir).v
            /\ file_names' = [i \in 1..Len(file_names) |->
                                RelativizeOne(current_dir', file_names[i])]
    /\ Goto("output", "relativize", "ok")
    /\ UNCHANGED <<args, workdir, remote, head_content, default_branch_name,
                   index_state, staged_changes, branch, rev_list_count, diff_cmd,
                   files_cmd, listed_args, printed, preview, skim_out, editor,
                   launched, running, rel_vars>>

\* if !args.selector { println each; return }
PrintFiles ==
    /\ pc = "output"
    /\ ~args.v.selector
    /\ printed' = file_names
    /\ Goto("done", "print", "ok")
    /\ UNCHANGED <<args, workdir, remote, head_content, default_branch_name,
                   index_state, staged_changes, branch, rev_list_count, diff_cmd,
                   files_cmd, listed_args, file_names, current_dir, preview,
                   skim_out, editor, launched, running, rel_vars>>

\* The selector: the preview command, Skim::run_with(..).unwrap(), the return
\* on is_abort, get_editor.
Select ==
    /\ pc = "output"
    /\ args.v.selector
    /\ preview' = PreviewCommand(diff_cmd)
    /\ \/ /\ Goto("panic", "select", "none")
          /\ UNCHANGED <<skim_out, editor>>
       \/ /\ skim_out' = Some([is_abort |-> TRUE, selected_items |-> <<>>])
          /\ Goto("done", "select", "abort")
          /\ UNCHANGED editor
       \/ \E items \in SubLists(file_names), env \in EditorEnv(args.v.editor) :
            /\ skim_out' = Some([is_abort |-> FALSE, selected_items |-> items])
            /\ editor' = get_editor(args.v.editor, env)
            /\ Goto(IF items = <<>> THEN "done" ELSE "launch", "select", "accept")
    /\ UNCHANGED <<args, workdir, remote, head_content, default_branch_name,
                   index_state, staged_changes, branch, rev_list_count, diff_cmd,
                   files_cmd, listed_args, file_names, current_dir, printed,
                   launched, running, rel_vars>>

\* AfterSpawn with a fault: Command::spawn, which does not wait for the child.
AfterSpawnNoWait(n) ==
    IF n < Len(skim_out.v.selected_items) THEN "launch" ELSE "done"

\* Command::status: the run waits for the child it started.
AfterSpawn(n) == "wait"

\* Command::new(editor).arg(item.output()).status().unwrap(): the start of
\* the child; a child that cannot be started panics.
SpawnEditor ==
    /\ pc = "launch"
    /\ LET n == Len(launched) + 1
           item == skim_out.v.selected_items[n]
       IN \/ /\ launched' = Append(launched, [program |-> editor, arg |-> item])
             /\ running' = running \cup {n}
             /\ Goto(AfterSpawn(n), "spawn", "ok")
          \/ /\ Goto("panic", "spawn", "failed")
             /\ UNCHANGED <<launched, running>>
    /\ UNCHANGED <<args, workdir, remote, head_content, default_branch_name,
                   index_state, staged_changes, branch, rev_list_count, diff_cmd,
                   files_cmd, listed_args, file_names, current_dir, printed,
                   preview, skim_out, editor, rel_vars>>

\* The end of the child: status() returns Ok whatever the exit code, which
\* the run does not read; the loop goes on to the next selected item.
WaitEditor ==
    /\ pc = "wait"
    /\ running' = running \ {Len(launched)}
    /\ Goto(IF Len(launched) < Len(skim_out.v.selected_items) THEN "launch" ELSE "done",
            "wait", "exited")
    /\ UNCHANGED <<args, workdir, remote, head_content, default_branch_name,
                   index_state, staged_changes, branch, rev_list_count, diff_cmd,
                   files_cmd, listed_args, file_names, current_dir, printed,
                   preview, skim_out, editor, launched, rel_vars>>

Next ==
    \/ ParseArgs
    \/ GetWorkdir
    \/ ResolveRemote
    \/ GetDefaultBranch
    \/ IsStaged
    \/ Plan
    \/ ListFiles
    \/ Relativize
    \/ PrintFiles
    \/ Select
    \/ SpawnEditor
    \/ WaitEditor

Spec == Init /\ [][Next]_vars

\* ------------------------------------------------- relativize on its own

RelInit ==
    /\ MainInit
    /\ rel_pc = "call"
    /\ rel_from \in FromDirs
    /\ rel_to \in ToPaths
    /\ rel_out = <<>>

RelCall ==
    /\ rel_pc = "call"
    /\ rel_out' = relativize(rel_from, rel_to)
    /\ rel_pc' = "returned"
    /\ UNCHANGED <<rel_from, rel_to, main_vars>>

RelNext == RelCall

SpecRel == RelInit /\ [][RelNext]_vars
\* ------------------------------------------------- claims about relativize

\* from with one leading separator stripped, as relativize strips it.
Stripped(from) == IF StartsWith(from, <<SLASH>>) THEN Tail(from) ELSE from

Returned == rel_pc = "returned"

\* The pieces relativize walks in lock-step.
FromParts == Split(Stripped(rel_from), SLASH)
ToParts == Split(PathParent(rel_to).v, SLASH)
ToFile == PathFileName(rel_to).v

\* The walk finds no divergence: every piece of from equals to's piece at
\* the same index.
NoDivergencePoint ==
    \A i \in 1..Len(FromParts) : i <= Len(ToParts) /\ FromParts[i] = ToParts[i]

\* k is the first index (from 1) at which the pieces differ or to's run out.
DivergesAt(k) ==
    /\ k \in 1..Len(FromParts)
    /\ \A j \in 1..(k - 1) : j <= Len(ToParts) /\ FromParts[j] = ToParts[j]
    /\ k > Len(ToParts) \/ FromParts[k] # ToParts[k]

FooBarBaz == <<"foo", SLASH, "bar", SLASH, "baz">>
FooBar == <<"foo", SLASH, "bar">>

\* C1: when to_path's directory is from_dir (non-empty), relativize returns
\* to_path's base name alone, with no "../" before it.
C1_SameDirectoryGivesBaseName ==
    (Returned /\ rel_from # <<>> /\ PathParent(rel_to).v = Stripped(rel_from))
        => rel_out = ToFile

\* The components of a path: its non-empty pieces.
Components(p) == NonEmpty(Split(p, SLASH))

\* Resolving a relative path from a directory: ".." removes the last
\* component, any other component is appended.
RECURSIVE Walk(_, _)
Walk(stack, pieces) ==
    IF pieces = <<>> THEN stack
    ELSE IF Head(pieces) = <<"..">>
         THEN Walk(SubSeq(stack, 1, Len(stack) - 1), Tail(pieces))
    ELSE Walk(Append(stack, Head(pieces)), Tail(pieces))

Resolve(dir, rel) == Walk(Components(dir), Components(rel))

\* C2: the path relativize returns, resolved from from_dir, is to_path.
C2_ResultResolvesToPath ==
    Returned => Resolve(rel_from, rel_out) = Components(rel_to)

\* C3: when the walk diverges at index i (counted from 0), relativize
\* returns (number of from_dir components - i) times "../" and then
\* to_path's base name; a to_path without a directory diverges at 0; the two
\* cases of the repository's test come out as the test expects.
C3_DivergenceGivesParentReferences ==
    (Returned /\ rel_from # <<>>) =>
        /\ \A k \in 1..Len(FromParts) :
             DivergesAt(k) =>
               rel_out = Repeat(<<"..", SLASH>>, Len(FromParts) - (k - 1)) \o ToFile
        /\ LastSlash(rel_to) = 0 =>
             rel_out = Repeat(<<"..", SLASH>>, Len(FromParts)) \o rel_to
        /\ (rel_from = FooBarBaz /\ rel_to = <<"foo", SLASH, "hey">>) =>
             rel_out = <<"..", SLASH, "..", SLASH, "hey">>
        /\ (rel_from = FooBarBaz /\ rel_to = <<"readme.md">>) =>
             rel_out = <<"..", SLASH, "..", SLASH, "..", SLASH, "readme.md">>

\* A call that diverges after a shared first component: the test's first case.
C3_Witness ==
    /\ Returned
    /\ rel_from = FooBarBaz
    /\ rel_to = <<"foo", SLASH, "hey">>
    /\ DivergesAt(2)
    /\ rel_out = <<"..", SLASH, "..", SLASH, "hey">>

\* C9: relativize returns to_path unchanged when from_dir is empty, and when
\* the walk finds no divergence point.
C9_UnchangedWithoutDivergence ==
    Returned =>
        /\ rel_from = <<>> => rel_out = rel_to
        /\ (rel_from # <<>> /\ NoDivergencePoint) => rel_out = rel_to

\* A call from a non-empty directory whose walk ends without a divergence,
\* the file lying below that directory.
C9_Witness ==
    /\ Returned
    /\ rel_from = <<SLASH>> \o FooBar
    /\ NoDivergencePoint
    /\ Len(ToParts) > Len(FromParts)
    /\ rel_out = rel_to

\* ------------------------------------------------------ claims about main

Planned == diff_cmd # <<>>

\* The mode the user asked for: a name, or "default" without --diff-mode.
Requested == trace[1].res

\* The number of words of a command that are w.
Count(words, w) == Cardinality({i \in 1..Len(words) : words[i] = w})

CACHED == <<"--cached">>

StagedSuffix == IF staged_changes THEN <<SPACE, "--cached">> ELSE <<>>

\* The design document's table of modes, WorkingTree included.
DocumentedModes == DiffMode \cup {"working-tree"}

DocumentedCommand(mode) ==
    LET b == default_branch_name.v
    IN CASE mode \in {"working-tree", "branch"} -> <<"diff", SPACE>> \o b
         [] mode = "upstream" -> <<"diff", SPACE>> \o remote \o <<SLASH>> \o branch
         [] mode = "remote" -> <<"diff", SPACE>> \o remote \o <<SLASH>> \o b
         [] mode = "revlist" -> <<"diff", SPACE, "HEAD~">> \o rev_list_count
         [] mode = "revlist-remote" ->
              <<"diff", SPACE>> \o remote \o <<SLASH, "HEAD~">> \o rev_list_count

\* The rev-list query ran and printed the count the command holds.
CountFromRevList ==
    args.v.diff_mode \in {"revlist", "revlist-remote"} =>
        /\ \E i \in 1..Len(trace) : trace[i] = Event(Q_REVLIST, "ok")
        /\ rev_list_count \in RevListCounts

C5_CachedIffStaged ==
    Planned =>
        LET words == ShlexSplit(diff_cmd)
            base == ShlexSplit(DocumentedCommand(args.v.diff_mode))
            staged == index_state = "staged"
        IN /\ Count(words, CACHED) = (IF staged THEN 1 ELSE 0)
           /\ words = base \o (IF staged THEN <<CACHED>> ELSE <<>>)
           /\ Count(base, CACHED) = 0
           /\ listed_args # <<>> => listed_args = words \o << <<"--name-only">> >>
           /\ preview # <<>> =>
                ShlexSplit(preview) =
                  << <<"git">> >> \o words \o << <<"--color=always">>, <<"--">>, <<"{}">> >>

\* A run with staged changes that listed files and built the preview.
C5_Witness ==
    /\ index_state = "staged"
    /\ Count(ShlexSplit(diff_cmd), CACHED) = 1
    /\ Count(listed_args, CACHED) = 1
    /\ Count(ShlexSplit(preview), CACHED) = 1

\* C6: a default branch name is returned only for a HEAD file that reads
\* "ref: refs/remotes/<remote>/<branch>" with a non-empty branch: no command
\* is planned or run with an empty branch name.
C6_NoEmptyDefaultBranch ==
    /\ default_branch_name.some =>
         /\ default_branch_name.v # <<>>
         /\ Trim(head_content.v) = <<REF_HEAD>> \o remote \o <<SLASH>> \o default_branch_name.v
    /\ (Planned \/ listed_args # <<>>) => default_branch_name.v # <<>>

IsGit(e) == e.step \in GitQueries

\* The run stopped at trace[i]: it is the last step and the run panicked.
StoppedAt(i) == i = Len(trace) /\ pc = "panic"

\* No git query appears twice among the steps of the run.
NoRetry ==
    \A q \in GitQueries : Cardinality({i \in 1..Len(trace) : trace[i].step = q}) <= 1

Selected == \E i \in 1..Len(trace) : trace[i].step = "select"

Listing == \E i \in 1..Len(trace) : trace[i] = Event(Q_LISTING, "ok")

\* C8: the selector runs only on a non-empty list, an editor is launched
\* only after the selector returned without abort; a run with an empty list
\* or an aborted selection ends cleanly: nothing printed, no editor, no
\* panic.
C8_SelectorAndEditorGuards ==
    /\ Selected => (file_names # <<>> /\ args.v.selector)
    /\ launched # <<>> => (skim_out.some /\ ~skim_out.v.is_abort)
    /\ (Listing /\ file_names = <<>>) =>
         /\ pc = "done"
         /\ trace[Len(trace)] = Event(Q_LISTING, "ok")
         /\ printed = <<>> /\ launched = <<>> /\ ~Selected
    /\ (skim_out.some /\ skim_out.v.is_abort) =>
         /\ pc = "done"
         /\ trace[Len(trace)] = Event("select", "abort")
         /\ printed = <<>> /\ launched = <<>>

\* A run whose selection the user aborted.
C8_Witness ==
    /\ skim_out.some /\ skim_out.v.is_abort
    /\ file_names # <<>>
    /\ pc = "done"

\* C10: one editor per selected file, in selection order, never two at a
\* time, each ended before the next starts; a launch that fails stops the
\* run with the later files unopened.
C10_EditorsOneAtATime ==
    /\ Cardinality(running) <= 1
    /\ pc = "launch" => running = {}
    /\ launched # <<>> =>
         /\ Len(launched) <= Len(skim_out.v.selected_items)
         /\ \A i \in 1..Len(launched) :
              launched[i] = [program |-> editor, arg |-> skim_out.v.selected_items[i]]
    /\ (pc = "done" /\ skim_out.some /\ ~skim_out.v.is_abort) =>
         (Len(launched) = Len(skim_out.v.selected_items) /\ running = {})
    /\ \A i \in 1..Len(trace) :
         trace[i] = Event("spawn", "failed") =>
           /\ StoppedAt(i)
           /\ Len(launched) < Len(skim_out.v.selected_items)
           /\ running = {}

\* A run that opened two files one after the other.
C10_Witness ==
    /\ pc = "done"
    /\ Len(launched) = 2
    /\ launched[1].arg # launched[2].arg
    /\ running = {}
====
